---- MODULE Spec2Model ----
(***************************************************************************)
(* Model of streamlit_app.py: the pause analysis of a WAV file             *)
(* (analyse_pauses_from_wav_bytes), the filler count of a transcript       *)
(* (count_fillers) and the words-per-minute computation of the script.     *)
(*                                                                         *)
(* Python floats are modelled as exact rationals <<numerator, denominator>>*)
(* in lowest terms with a positive denominator.  The WAV is mono: one      *)
(* sample per frame.                                                       *)
(***************************************************************************)
EXTENDS Integers, Sequences, FiniteSets, TLC

VARIABLES
    pc,                     \* position in the script / function
    exc,                    \* the exception propagating, "none" when running
    wav_bytes,              \* [framerate, nframes, samples]: the parsed WAV
    window_ms, silence_rms_threshold, min_pause_ms, long_pause_ms,
    duration_s, frames_per_window, pos,
    silent_windows, total_windows,
    min_pause_windows, long_pause_windows,
    idx, run, pause_s, long_pause_count, accepted,
    pause_pct,
    text, t, words, total_words, filler_count, phrase_i, matches, filler_pct,
    minutes, wpm

pauseVars == <<wav_bytes, window_ms, silence_rms_threshold, min_pause_ms,
               long_pause_ms, duration_s, frames_per_window, pos,
               silent_windows, total_windows, min_pause_windows,
               long_pause_windows, idx, run, pause_s, long_pause_count,
               accepted, pause_pct>>

fillerVars == <<text, t, words, total_words, filler_count, phrase_i, matches,
                filler_pct>>

mainVars == <<minutes, wpm>>

vars == <<pc, exc, pauseVars, fillerVars, mainVars>>

(***************************************************************************)
(* Bounds of the model.                                                    *)
(***************************************************************************)
MaxFrames == 5
MaxFrags == 3

(***************************************************************************)
(* Exact arithmetic standing for Python's float and int().                 *)
(***************************************************************************)
Abs(x) == IF x < 0 THEN -x ELSE x

RECURSIVE Gcd(_, _)
Gcd(a, b) == IF b = 0 THEN a ELSE Gcd(b, a % b)

\* a rational in lowest terms, denominator positive
Rat(n, d) ==
    LET g == Gcd(Abs(n), Abs(d))
        s == IF d < 0 THEN -1 ELSE 1
    IN  <<s * (n \div g), s * (d \div g)>>

RAdd(a, b) == Rat(a[1] * b[2] + b[1] * a[2], a[2] * b[2])
RMul(a, b) == Rat(a[1] * b[1], a[2] * b[2])
RDiv(a, b) == Rat(a[1] * b[2], a[2] * b[1])
RLe(a, b) == a[1] * b[2] <= b[1] * a[2]
RLt(a, b) == a[1] * b[2] < b[1] * a[2]
RInt(k) == <<k, 1>>
Zero == <<0, 1>>

\* Python's int(n / d): truncation toward zero
IntTrunc(n, d) ==
    LET q == Abs(n) \div Abs(d)
    IN  IF (n < 0) = (d < 0) THEN q ELSE -q

Max(a, b) == IF a >= b THEN a ELSE b

\* the integer square root of x, searched in lo..hi by bisection
RECURSIVE ISqrtIn(_, _, _)
ISqrtIn(x, lo, hi) ==
    IF lo >= hi THEN lo
    ELSE LET mid == (lo + hi + 1) \div 2
         IN  IF mid * mid <= x THEN ISqrtIn(x, mid, hi)
             ELSE ISqrtIn(x, lo, mid - 1)

RECURSIVE SumSquares(_)
SumSquares(s) ==
    IF s = <<>> THEN 0 ELSE Head(s) * Head(s) + SumSquares(Tail(s))

\* audioop.rms(frames, sampwidth): (unsigned int) sqrt(sum_squares / n)
rms(frames) ==
    IF Len(frames) = 0 THEN 0
    ELSE ISqrtIn(SumSquares(frames) \div Len(frames), 0, 32767)

\* wf.readframes(n) at read position p
readframes(wav, p, n) ==
    SubSeq(wav.samples, p + 1,
           IF p + n > wav.nframes THEN wav.nframes ELSE p + n)

(***************************************************************************)
(* analyse_pauses_from_wav_bytes                                           *)
(***************************************************************************)
Amplitudes == {0, 300}
FrameRates == {0, 50, 100}
WindowMsVals == {-20, 0, 20, 30}
ThresholdVals == {-1, 200}
MinPauseMsVals == {-10, 10, 30, 40}
LongPauseMsVals == {-10, 40}

Wavs(rates, lens) ==
    UNION { { [framerate |-> f, nframes |-> n, samples |-> s] :
                s \in [1..n -> Amplitudes] } : <<f, n>> \in rates \X lens }

FramesPerWindow(framerate, w_ms) ==
    LET n == IntTrunc(framerate * w_ms, 1000)
    IN  IF n <= 0 THEN 1 ELSE n

MinPauseWindows_swapped(mp_ms, w_ms) == Max(1, IntTrunc(w_ms, mp_ms))

MinPauseWindows(mp_ms, w_ms) == Max(1, IntTrunc(mp_ms, w_ms))

LongPauseWindows(lp_ms, w_ms) == Max(1, IntTrunc(lp_ms, w_ms))

\* the list the run-length scan iterates over
ScanInput_nosentinel(sw) == sw

ScanInput(sw) == Append(sw, FALSE)

\* one iteration of the run-length scan; st = [run, pause_s,
\* long_pause_count, accepted], accepted being the history of the run
\* lengths that passed the min-pause test
ScanBody(st, is_silent, window_s, mpw, lpw) ==
    IF is_silent
    THEN [st EXCEPT !.run = st.run + 1]
    ELSE IF st.run >= mpw
         THEN [run |-> 0,
               pause_s |-> RAdd(st.pause_s, RMul(RInt(st.run), window_s)),
               long_pause_count |-> IF st.run >= lpw
                                    THEN st.long_pause_count + 1
                                    ELSE st.long_pause_count,
               accepted |-> Append(st.accepted, st.run)]
         ELSE [st EXCEPT !.run = 0]

ScanStart == [run |-> 0, pause_s |-> Zero, long_pause_count |-> 0,
              accepted |-> <<>>]

RECURSIVE ScanFrom(_, _, _, _, _)
ScanFrom(st, seq, window_s, mpw, lpw) ==
    IF seq = <<>> THEN st
    ELSE ScanFrom(ScanBody(st, Head(seq), window_s, mpw, lpw), Tail(seq),
                  window_s, mpw, lpw)

\* the whole scan of lines 94-107 for a list of silent flags
ScanAll(sw, w_ms, mp_ms, lp_ms) ==
    ScanFrom(ScanStart, ScanInput(sw), Rat(w_ms, 1000),
             MinPauseWindows(mp_ms, w_ms), LongPauseWindows(lp_ms, w_ms))

NoPauseLocals ==
    /\ duration_s = Zero
    /\ frames_per_window = 0
    /\ pos = 0
    /\ silent_windows = <<>>
    /\ total_windows = 0
    /\ min_pause_windows = 0
    /\ long_pause_windows = 0
    /\ idx = 0
    /\ run = 0
    /\ pause_s = Zero
    /\ long_pause_count = 0
    /\ accepted = <<>>
    /\ pause_pct = Zero

NoFillerLocals ==
    /\ text = <<>>
    /\ t = <<>>
    /\ words = <<>>
    /\ total_words = 0
    /\ filler_count = 0
    /\ phrase_i = 0
    /\ matches = <<>>
    /\ filler_pct = Zero

NoMainLocals ==
    /\ minutes = Zero
    /\ wpm = Zero

InitPause ==
    /\ pc = "open"
    /\ exc = "none"
    /\ wav_bytes \in Wavs(FrameRates, 0..MaxFrames)
    /\ window_ms \in WindowMsVals
    /\ silence_rms_threshold \in ThresholdVals
    /\ min_pause_ms \in MinPauseMsVals
    /\ long_pause_ms \in LongPauseMsVals
    /\ NoPauseLocals
    /\ NoFillerLocals
    /\ NoMainLocals

\* lines 60-66: read the header, compute the duration
Open ==
    /\ pc = "open"
    /\ IF wav_bytes.framerate = 0
       THEN /\ pc' = "raised"
            /\ exc' = "ZeroDivisionError"
            /\ UNCHANGED duration_s
       ELSE /\ pc' = "window"
            /\ duration_s' = Rat(wav_bytes.nframes, wav_bytes.framerate)
            /\ UNCHANGED exc
    /\ UNCHANGED <<wav_bytes, window_ms, silence_rms_threshold, min_pause_ms,
                   long_pause_ms, frames_per_window, pos, silent_windows,
                   total_windows, min_pause_windows, long_pause_windows,
                   idx, run, pause_s, long_pause_count, accepted, pause_pct>>
    /\ UNCHANGED <<fillerVars, mainVars>>

\* lines 68-76: frames per analysis window, rewind
Window ==
    /\ pc = "window"
    /\ frames_per_window' = FramesPerWindow(wav_bytes.framerate, window_ms)
    /\ silent_windows' = <<>>
    /\ total_windows' = 0
    /\ pos' = 0
    /\ pc' = "read"
    /\ UNCHANGED <<exc, wav_bytes, window_ms, silence_rms_threshold,
                   min_pause_ms, long_pause_ms, duration_s,
                   min_pause_windows, long_pause_windows, idx, run, pause_s,
                   long_pause_count, accepted, pause_pct>>
    /\ UNCHANGED <<fillerVars, mainVars>>

\* lines 77-87: one iteration of the read loop
ReadFrames ==
    /\ pc = "read"
    /\ LET frames == readframes(wav_bytes, pos, frames_per_window)
       IN  IF frames = <<>>
           THEN /\ pc' = "params"
                /\ UNCHANGED <<pos, total_windows, silent_windows>>
           ELSE /\ pos' = pos + Len(frames)
                /\ total_windows' = total_windows + 1
                /\ silent_windows' =
                       Append(silent_windows,
                              rms(frames) < silence_rms_threshold)
                /\ UNCHANGED pc
    /\ UNCHANGED <<exc, wav_bytes, window_ms, silence_rms_threshold,
                   min_pause_ms, long_pause_ms, duration_s,
                   frames_per_window, min_pause_windows, long_pause_windows,
                   idx, run, pause_s, long_pause_count, accepted, pause_pct>>
    /\ UNCHANGED <<fillerVars, mainVars>>

\* lines 90-97: window counts of the two thresholds, scan initialisation
Params ==
    /\ pc = "params"
    /\ IF window_ms = 0
       THEN /\ pc' = "raised"
            /\ exc' = "ZeroDivisionError"
            /\ UNCHANGED <<min_pause_windows, long_pause_windows, idx, run,
                           pause_s, long_pause_count, accepted>>
       ELSE /\ min_pause_windows' = MinPauseWindows(min_pause_ms, window_ms)
            /\ long_pause_windows' = LongPauseWindows(long_pause_ms, window_ms)
            /\ pause_s' = ScanStart.pause_s
            /\ long_pause_count' = ScanStart.long_pause_count
            /\ run' = ScanStart.run
            /\ accepted' = ScanStart.accepted
            /\ idx' = 1
            /\ pc' = "scan"
            /\ UNCHANGED exc
    /\ UNCHANGED <<wav_bytes, window_ms, silence_rms_threshold, min_pause_ms,
                   long_pause_ms, duration_s, frames_per_window, pos,
                   silent_windows, total_windows, pause_pct>>
    /\ UNCHANGED <<fillerVars, mainVars>>

\* lines 98-107: one iteration of the run-length scan
Scan ==
    /\ pc = "scan"
    /\ LET seq == ScanInput(silent_windows)
       IN  IF idx > Len(seq)
           THEN /\ pc' = "pct"
                /\ UNCHANGED <<idx, run, pause_s, long_pause_count, accepted>>
           ELSE LET st == ScanBody([run |-> run, pause_s |-> pause_s,
                                    long_pause_count |-> long_pause_count,
                                    accepted |-> accepted],
                                   seq[idx], Rat(window_ms, 1000),
                                   min_pause_windows, long_pause_windows)
                IN  /\ run' = st.run
                    /\ pause_s' = st.pause_s
                    /\ long_pause_count' = st.long_pause_count
                    /\ accepted' = st.accepted
                    /\ idx' = idx + 1
                    /\ UNCHANGED pc
    /\ UNCHANGED <<exc, wav_bytes, window_ms, silence_rms_threshold,
                   min_pause_ms, long_pause_ms, duration_s,
                   frames_per_window, pos, silent_windows, total_windows,
                   min_pause_windows, long_pause_windows, pause_pct>>
    /\ UNCHANGED <<fillerVars, mainVars>>

\* lines 109-110: pause percentage and return
Return ==
    /\ pc = "pct"
    /\ pause_pct' = IF RLt(Zero, duration_s)
                    THEN RMul(RDiv(pause_s, duration_s), RInt(100))
                    ELSE Zero
    /\ pc' = "returned"
    /\ UNCHANGED <<exc, wav_bytes, window_ms, silence_rms_threshold,
                   min_pause_ms, long_pause_ms, duration_s,
                   frames_per_window, pos, silent_windows, total_windows,
                   min_pause_windows, long_pause_windows, idx, run, pause_s,
                   long_pause_count, accepted>>
    /\ UNCHANGED <<fillerVars, mainVars>>

NextPause == Open \/ Window \/ ReadFrames \/ Params \/ Scan \/ Return

SpecPause == InitPause /\ [][NextPause]_vars

(***************************************************************************)
(* count_fillers.  A text is a sequence of one-character strings.          *)
(***************************************************************************)
LowerCase ==
    <<"a", "b", "c", "d", "e", "f", "g", "h", "i", "j", "k", "l",
      "m", "n", "o", "p", "q", "r", "s", "t", "u", "v", "w", "x",
      "y", "z">>

UpperCase ==
    <<"A", "B", "C", "D", "E", "F", "G", "H", "I", "J", "K", "L",
      "M", "N", "O", "P", "Q", "R", "S", "T", "U", "V", "W", "X",
      "Y", "Z">>

Digits == {"0", "1", "2", "3", "4", "5", "6", "7", "8", "9"}

Range(f) == { f[i] : i \in DOMAIN f }

FILLER_WORDS ==
    <<<<"u", "m">>,
      <<"u", "h">>,
      <<"e", "r">>,
      <<"a", "h">>,
      <<"l", "i", "k", "e">>,
      <<"b", "a", "s", "i", "c", "a", "l", "l", "y">>,
      <<"a", "c", "t", "u", "a", "l", "l", "y">>,
      <<"l", "i", "t", "e", "r", "a", "l", "l", "y">>,
      <<"r", "i", "g", "h", "t">>>>

FILLER_PHRASES ==
    <<<<"y", "o", "u", " ", "k", "n", "o", "w">>,
      <<"s", "o", "r", "t", " ", "o", "f">>,
      <<"k", "i", "n", "d", " ", "o", "f">>>>

\* str.lower() on one character
LowerChar(c) ==
    IF c \in Range(UpperCase)
    THEN LowerCase[CHOOSE i \in DOMAIN UpperCase : UpperCase[i] = c]
    ELSE c

lower(s) == [i \in DOMAIN s |-> LowerChar(s[i])]

\* the character class [a-z'] of tokenise_words
IsTokenChar(c) == c \in Range(LowerCase) \cup {"'"}

\* the regex class \w, which decides where \b holds
IsWordChar(c) == c \in Range(LowerCase) \cup Range(UpperCase) \cup Digits \cup {"_"}

\* re.findall(r"[a-z']+", s) from index i on; cur is the token being read
RECURSIVE TokensFrom(_, _, _)
TokensFrom(s, i, cur) ==
    IF i > Len(s)
    THEN IF cur = <<>> THEN <<>> ELSE <<cur>>
    ELSE IF IsTokenChar(s[i])
         THEN TokensFrom(s, i + 1, Append(cur, s[i]))
         ELSE IF cur = <<>>
              THEN TokensFrom(s, i + 1, <<>>)
              ELSE <<cur>> \o TokensFrom(s, i + 1, <<>>)

tokenise_words(s) == TokensFrom(lower(s), 1, <<>>)

\* \b between s[i-1] and s[i]
WordBoundary(s, i) ==
    LET before == i > 1 /\ i - 1 <= Len(s) /\ IsWordChar(s[i - 1])
        after == i >= 1 /\ i <= Len(s) /\ IsWordChar(s[i])
    IN  before # after

\* the literal phrase starts at s[i]
LiteralAt(phrase, s, i) ==
    /\ i + Len(phrase) - 1 <= Len(s)
    /\ SubSeq(s, i, i + Len(phrase) - 1) = phrase

MatchAt_noboundary(phrase, s, i) == LiteralAt(phrase, s, i)

\* r"\b" + re.escape(phrase) + r"\b" matches at s[i]
MatchAt(phrase, s, i) ==
    /\ LiteralAt(phrase, s, i)
    /\ WordBoundary(s, i)
    /\ WordBoundary(s, i + Len(phrase))

\* re.findall: the start indices of the non-overlapping matches, scanning
\* from the left, from index i on
RECURSIVE FindAllFrom(_, _, _)
FindAllFrom(phrase, s, i) ==
    IF i > Len(s) THEN <<>>
    ELSE IF MatchAt(phrase, s, i)
         THEN <<i>> \o FindAllFrom(phrase, s, i + Len(phrase))
         ELSE FindAllFrom(phrase, s, i + 1)

findall(phrase, s) == FindAllFrom(phrase, s, 1)

\* sum(1 for w in words if w in filler_set)
RECURSIVE SingleHits(_)
SingleHits(ws) ==
    IF ws = <<>> THEN 0
    ELSE (IF Head(ws) \in Range(FILLER_WORDS) THEN 1 ELSE 0)
         + SingleHits(Tail(ws))

Example1 ==
    <<"u", "m", " ", "s", "o", " ", "b", "a", "s", "i", "c", "a",
      "l", "l", "y", " ", "I", " ", "t", "h", "i", "n", "k", " ",
      "y", "o", "u", " ", "k", "n", "o", "w", " ", "t", "h", "i",
      "s", " ", "i", "s", " ", "t", "h", "i", "s", " ", "i", "s",
      " ", "c", "o", "r", "r", "e", "c", "t">>

Example2 ==
    <<"y", "o", "u", " ", "k", "n", "o", "w", "l", "e", "d", "g",
      "e", " ", "o", "f", " ", "s", "o", "r", "t", " ", "o", "f",
      "t", "h", "e", " ", "p", "l", "a", "n">>

Fragments ==
    <<<<"y", "o", "u", " ", "k", "n", "o", "w">>,
      <<"s", "o", "r", "t", " ", "o", "f">>,
      <<"k", "i", "n", "d", " ", "o", "f">>,
      <<"u", "m">>,
      <<"U", "M">>,
      <<" ">>,
      <<"s", " ">>,
      <<"1">>,
      <<"'">>>>

RECURSIVE Concat(_)
Concat(ss) == IF ss = <<>> THEN <<>> ELSE Head(ss) \o Concat(Tail(ss))

\* the transcripts made of at most n fragments
Texts(n) ==
    UNION { { Concat([i \in 1..k |-> Fragments[c[i]]]) :
                c \in [1..k -> DOMAIN Fragments] } : k \in 0..n }

InitFillers ==
    /\ pc = "count_fillers"
    /\ exc = "none"
    /\ wav_bytes = [framerate |-> 0, nframes |-> 0, samples |-> <<>>]
    /\ window_ms = 20
    /\ silence_rms_threshold = 200
    /\ min_pause_ms = 200
    /\ long_pause_ms = 2000
    /\ NoPauseLocals
    /\ text \in Texts(MaxFrags) \cup {Example1, Example2}
    /\ t = <<>>
    /\ words = <<>>
    /\ total_words = 0
    /\ filler_count = 0
    /\ phrase_i = 0
    /\ matches = <<>>
    /\ filler_pct = Zero
    /\ NoMainLocals

\* lines 29-31: lowercase, tokenise, count the words
Tokenise ==
    /\ pc = "count_fillers"
    /\ t' = lower(text)
    /\ words' = tokenise_words(lower(text))
    /\ total_words' = Len(tokenise_words(lower(text)))
    /\ pc' = "singles"
    /\ UNCHANGED <<exc, pauseVars, mainVars, text, filler_count, phrase_i,
                   matches, filler_pct>>

\* lines 33-37: single-word fillers
Singles ==
    /\ pc = "singles"
    /\ filler_count' = 0 + SingleHits(words)
    /\ phrase_i' = 1
    /\ matches' = <<>>
    /\ pc' = "phrases"
    /\ UNCHANGED <<exc, pauseVars, mainVars, text, t, words, total_words,
                   filler_pct>>

\* line 41: what one phrase adds to filler_count, given the matches
\* re.findall found
PhraseHits(phrase, found) == Len(found)

\* lines 40-41: one iteration of the loop over FILLER_PHRASES; matches keeps
\* the start indices re.findall matched, one entry per phrase
Phrases ==
    /\ pc = "phrases"
    /\ IF phrase_i > Len(FILLER_PHRASES)
       THEN /\ pc' = "filler_pct"
            /\ UNCHANGED <<filler_count, phrase_i, matches>>
       ELSE LET found == findall(FILLER_PHRASES[phrase_i], t)
            IN  /\ filler_count' =
                       filler_count + PhraseHits(FILLER_PHRASES[phrase_i], found)
                /\ matches' = Append(matches, found)
                /\ phrase_i' = phrase_i + 1
                /\ UNCHANGED pc
    /\ UNCHANGED <<exc, pauseVars, mainVars, text, t, words, total_words,
                   filler_pct>>

\* lines 43-44: filler percentage and return
FillerReturn ==
    /\ pc = "filler_pct"
    /\ filler_pct' = IF total_words # 0
                     THEN RMul(Rat(filler_count, total_words), RInt(100))
                     ELSE Zero
    /\ pc' = "fillers_returned"
    /\ UNCHANGED <<exc, pauseVars, mainVars, text, t, words, total_words,
                   filler_count, phrase_i, matches>>

NextFillers == Tokenise \/ Singles \/ Phrases \/ FillerReturn

SpecFillers == InitFillers /\ [][NextFillers]_vars

(***************************************************************************)
(* The script: lines 112-144.                                              *)
(***************************************************************************)
ScriptRates == {0, 1, 50}
ScriptLens == {0, 30, 60}
ScriptTexts == {<<>>, <<"u", "m">>, Example1, Example2}

ScriptWavs ==
    { [framerate |-> f, nframes |-> n, samples |-> [i \in 1..n |-> a]] :
        f \in ScriptRates, n \in ScriptLens, a \in Amplitudes }

\* lines 112-123: an uploaded file, analysed with the arguments of the call
InitScript ==
    /\ pc = "open"
    /\ exc = "none"
    /\ wav_bytes \in ScriptWavs
    /\ window_ms = 20
    /\ silence_rms_threshold = 200
    /\ min_pause_ms = 200
    /\ long_pause_ms = 2000
    /\ NoPauseLocals
    /\ NoFillerLocals
    /\ NoMainLocals

\* lines 126-128: no API key in the secrets, the script stops
MissingKey ==
    /\ pc = "returned"
    /\ pc' = "stopped"
    /\ UNCHANGED <<exc, pauseVars, fillerVars, mainVars>>

\* lines 130-140: the transcription service answers with a text, which is
\* handed to count_fillers
Transcribe ==
    /\ pc = "returned"
    /\ text' \in ScriptTexts
    /\ pc' = "count_fillers"
    /\ UNCHANGED <<exc, pauseVars, mainVars, t, words, total_words,
                   filler_count, phrase_i, matches, filler_pct>>

MinutesOf(d) == IF RLt(Zero, d) THEN RDiv(d, RInt(60)) ELSE Zero

WpmOf_epsilon(n, m) ==
    RDiv(RInt(n), IF RLt(m, <<1, 1000>>) THEN <<1, 1000>> ELSE m)

WpmOf(n, m) == IF RLt(Zero, m) THEN RDiv(RInt(n), m) ELSE Zero

\* line 143
Minutes ==
    /\ pc = "fillers_returned"
    /\ minutes' = MinutesOf(duration_s)
    /\ pc' = "wpm"
    /\ UNCHANGED <<exc, pauseVars, fillerVars, wpm>>

\* line 144
Wpm ==
    /\ pc = "wpm"
    /\ wpm' = WpmOf(total_words, minutes)
    /\ pc' = "done"
    /\ UNCHANGED <<exc, pauseVars, fillerVars, minutes>>

Next ==
    \/ Open \/ Window \/ ReadFrames \/ Params \/ Scan \/ Return
    \/ MissingKey \/ Transcribe
    \/ Tokenise \/ Singles \/ Phrases \/ FillerReturn
    \/ Minutes \/ Wpm

Init == InitScript

Spec == Init /\ [][Next]_vars

(***************************************************************************)
(* Properties.                                                             *)
(***************************************************************************)
ValidConfig ==
    /\ window_ms > 0
    /\ silence_rms_threshold >= 0
    /\ min_pause_ms >= 0
    /\ long_pause_ms >= 0

AllSilent == \A i \in DOMAIN silent_windows : silent_windows[i]

\* the length of the silent run the list ends with
RECURSIVE TrailingRun(_)
TrailingRun(sw) ==
    IF sw = <<>> \/ ~sw[Len(sw)] THEN 0
    ELSE 1 + TrailingRun(SubSeq(sw, 1, Len(sw) - 1))

Scanned == pc \in {"pct", "returned"}

\* the number of words of a phrase
PhraseWords(phrase) ==
    1 + Cardinality({ i \in DOMAIN phrase : phrase[i] = " " })

RECURSIVE WordEquivalent(_)
WordEquivalent(ms) ==
    IF ms = <<>> THEN 0
    ELSE Len(ms[Len(ms)]) * PhraseWords(FILLER_PHRASES[Len(ms)])
         + WordEquivalent(SubSeq(ms, 1, Len(ms) - 1))

\* C1: the filler count count_fillers returns is the number of tokens in
\* FILLER_WORDS plus, per phrase, occurrences times words of the phrase; the
\* example sentence has 12 words and a filler count of 4.
C1_WordEquivalentCount ==
    pc = "fillers_returned" =>
        /\ filler_count =
               Cardinality({ i \in DOMAIN words :
                               words[i] \in Range(FILLER_WORDS) })
               + WordEquivalent(matches)
        /\ (text = Example1 => total_words = 12 /\ filler_count = 4)

\* C2: on zero-duration audio (framerate = 0 or nframes = 0) the analysis
\* raises nothing and returns duration_s = 0 and pause_pct = 0.
C2_ZeroDurationReturnsZero ==
    (ValidConfig /\ (wav_bytes.framerate = 0 \/ wav_bytes.nframes = 0)) =>
        /\ exc = "none"
        /\ pc # "raised"
        /\ (pc = "returned" => duration_s = Zero /\ pause_pct = Zero)

\* C3: for positive window_ms and min_pause_ms, every silent run the scan
\* accepts as a pause lasts at least min_pause_ms (run x window_ms).
C3_ShortRunsDiscarded ==
    (window_ms > 0 /\ min_pause_ms > 0) =>
        \A k \in DOMAIN accepted : accepted[k] * window_ms >= min_pause_ms

\* C4: for window_ms > 0 and entirely silent audio of length L, the pause_s
\* returned differs from L by at most one window duration.
C4_SilentAudioWithinOneWindow ==
    (pc = "returned" /\ ValidConfig /\ AllSilent) =>
        LET diff == RAdd(pause_s, RMul(RInt(-1), duration_s))
            window_s == Rat(window_ms, 1000)
        IN  /\ RLe(diff, window_s)
            /\ RLe(RMul(RInt(-1), window_s), diff)

\* C5: with an invalid configuration the analysis (here of a WAV with a
\* positive sample rate) fails with a configuration error before the
\* duration is computed or a window is read; it neither returns nor raises
\* another exception.
C5_InvalidConfigFailsFast ==
    (~ValidConfig /\ wav_bytes.framerate > 0) =>
        /\ pc \in {"open", "raised"}
        /\ (pc = "raised" => exc = "InvalidConfiguration")
        /\ total_windows = 0

C7_TrailingRunFlushed ==
    (Scanned /\ TrailingRun(silent_windows) >= min_pause_windows
             /\ TrailingRun(silent_windows) >= 1) =>
        LET r == TrailingRun(silent_windows)
            window_s == Rat(window_ms, 1000)
            before == ScanFrom(ScanStart,
                               SubSeq(silent_windows, 1,
                                      Len(silent_windows) - r),
                               window_s, min_pause_windows,
                               long_pause_windows)
            voiced == ScanAll(Append(silent_windows, FALSE), window_ms,
                              min_pause_ms, long_pause_ms)
        IN  /\ pause_s = RAdd(before.pause_s, RMul(RInt(r), window_s))
            /\ long_pause_count =
                   before.long_pause_count
                   + (IF r >= long_pause_windows THEN 1 ELSE 0)
            /\ accepted = Append(before.accepted, r)
            /\ pause_s = voiced.pause_s
            /\ long_pause_count = voiced.long_pause_count

C7_Witness ==
    /\ pc = "returned"
    /\ ValidConfig
    /\ TrailingRun(silent_windows) >= min_pause_windows
    /\ TrailingRun(silent_windows) >= long_pause_windows
    /\ TrailingRun(silent_windows) < Len(silent_windows)
    /\ Len(accepted) = 2
    /\ long_pause_count = 1

\* an occurrence of the phrase at t[i] with a word character right before
\* or right after it
TouchesWord(phrase, s, i) ==
    /\ LiteralAt(phrase, s, i)
    /\ \/ (i > 1 /\ IsWordChar(s[i - 1]))
       \/ (i + Len(phrase) <= Len(s) /\ IsWordChar(s[i + Len(phrase)]))

\* C8: no occurrence of a filler phrase that has a word character right
\* before or right after it is counted; the example text has no match of
\* "you know" and none of "sort of".
C8_PhrasesAtWordBoundaries ==
    /\ \A p \in DOMAIN matches :
          /\ \A k \in DOMAIN matches[p] :
                /\ LiteralAt(FILLER_PHRASES[p], t, matches[p][k])
                /\ ~TouchesWord(FILLER_PHRASES[p], t, matches[p][k])
                /\ \A j \in DOMAIN matches[p] :
                      j < k => matches[p][j] < matches[p][k]
    /\ (pc = "fillers_returned" /\ text = Example2) =>
          /\ matches[1] = <<>>
          /\ matches[2] = <<>>
          /\ filler_count = 0

C8_Witness ==
    /\ pc = "fillers_returned"
    /\ \E p \in DOMAIN matches :
          \E i \in DOMAIN t :
              /\ TouchesWord(FILLER_PHRASES[p], t, i)
              /\ \A k \in DOMAIN matches[p] : matches[p][k] # i
    /\ \E q \in DOMAIN matches : matches[q] # <<>>

\* C9: words per minute is total_words / (duration_s / 60) when
\* duration_s > 0 and exactly 0 otherwise; 12 words in 60 s give 12.
C9_WordsPerMinute ==
    pc = "done" =>
        /\ RLt(Zero, duration_s) =>
              /\ wpm[2] > 0
              /\ wpm[1] * duration_s[1] =
                     total_words * 60 * duration_s[2] * wpm[2]
        /\ RLe(duration_s, Zero) => wpm = Zero
        /\ (duration_s = <<60, 1>> /\ total_words = 12) => wpm = <<12, 1>>

C9_Witness ==
    /\ pc = "done"
    /\ duration_s = <<60, 1>>
    /\ total_words = 12
    /\ wpm = <<12, 1>>

\* C10: for a valid configuration the values returned satisfy
\* 0 <= pause_s <= duration_s and 0 <= pause_pct <= 100.
C10_PauseWithinDuration ==
    (pc = "returned" /\ ValidConfig) =>
        /\ RLe(Zero, pause_s)
        /\ RLe(pause_s, duration_s)
        /\ RLe(Zero, pause_pct)
        /\ RLe(pause_pct, RInt(100))

====
